---------------------------- MODULE Spec2Model ----------------------------
(***************************************************************************)
(* Model of surfer/viz.py (class Brain): view resolution, camera paths,    *)
(* image-set export and montage compositing.                               *)
(*                                                                         *)
(* Strings that the code slices (view names) are sequences of one-letter   *)
(* strings.  A camera orientation is <<azimuth, elevation>> in degrees; the *)
(* camera itself is <<az, el, den>> standing for (az/den, el/den), because  *)
(* animate divides a delta by the step count.  mlab (the renderer) is not  *)
(* part of the repository: mlab.view(a, e) is taken to put the camera at   *)
(* (a, e) and to report (a, e) back, mlab.savefig(f) to write the current  *)
(* frame to f.                                                             *)
(*                                                                         *)
(* A behaviour is one session of a Brain object: single-view calls         *)
(* (show_view, save_image), window resizes and the two pure helpers in any *)
(* number and order, then one batch call (save_imageset, save_montage,     *)
(* animate) whose inputs and outcome are kept in `last`.                   *)
(***************************************************************************)
EXTENDS Integers, Sequences, FiniteSets, TLC

VARIABLES hemi, camera, figsize, disk, pc, last

vars == <<hemi, camera, figsize, disk, pc, last>>

-----------------------------------------------------------------------------
(* Bounds of the model *)

\* longest view sequence handed to a batch call
MaxViews == 3

\* largest step count n handed to animate
MaxSteps == 2

-----------------------------------------------------------------------------
(* View tables *)

lateral == <<"l", "a", "t", "e", "r", "a", "l">>
medial == <<"m", "e", "d", "i", "a", "l">>
anterior == <<"a", "n", "t", "e", "r", "i", "o", "r">>
posterior == <<"p", "o", "s", "t", "e", "r", "i", "o", "r">>
dorsal == <<"d", "o", "r", "s", "a", "l">>
ventral == <<"v", "e", "n", "t", "r", "a", "l">>

lh_viewdict ==
    (lateral :> <<180, 90>>) @@ (medial :> <<0, 90>>) @@
    (anterior :> <<90, 90>>) @@ (posterior :> <<-90, 90>>) @@
    (dorsal :> <<90, 0>>) @@ (ventral :> <<-90, 180>>)

rh_viewdict ==
    (lateral :> <<0, 90>>) @@ (medial :> <<0, -90>>) @@
    (anterior :> <<90, 90>>) @@ (posterior :> <<-90, -90>>) @@
    (dorsal :> <<-90, 0>>) @@ (ventral :> <<90, 0>>)

\* Brain.__init__: self.viewdict by hemisphere
viewdict(h) == IF h = "lh" THEN lh_viewdict ELSE rh_viewdict

-----------------------------------------------------------------------------
(* Values *)

\* a view spec: a str, a tuple, or a value that is neither (s: its str())
StrView(s) == [kind |-> "str", s |-> s, t |-> <<0, 0>>]
TupleView(t) == [kind |-> "tuple", s |-> <<>>, t |-> t]
OtherView(s) == [kind |-> "other", s |-> s, t |-> <<0, 0>>]

\* the camera at orientation t
Cam(t) == <<t[1], t[2], 1>>

\* "%s" % view: a str is itself, as is the str() of a number; a tuple is its repr
Label(view) ==
    IF view.kind = "tuple" THEN [text |-> <<>>, tup |-> <<view.t>>]
    ELSE [text |-> view.s, tup |-> <<>>]

\* "%s_%s.%s" % (prefix, view, filetype); ext: filetype split at its dots
Fname(prefix, view, filetype) ==
    [prefix |-> prefix, label |-> Label(view), ext |-> filetype]

-----------------------------------------------------------------------------
(* __xfm_view *)

\* k[:n]
Slice(k, n) == SubSeq(k, 1, IF n < Len(k) THEN n ELSE Len(k))

xfm_view_bad == [raised |-> "ValueError", s |-> <<>>, t |-> <<0, 0>>]

\* xfm_view raising only when no key matches (`len(good_view) == 0`)
xfm_view_first_match(vd, view, out) ==
    LET good_view == {k \in DOMAIN vd : view = Slice(k, Len(view))}
        found == [raised |-> "none",
                  s |-> IF view \in DOMAIN vd THEN view
                        ELSE CHOOSE k \in good_view : TRUE,
                  t |-> <<0, 0>>]
    IN  IF view \notin DOMAIN vd /\ Cardinality(good_view) = 0
        THEN xfm_view_bad
        ELSE IF out = "t"
             THEN [found EXCEPT !.s = <<>>, !.t = vd[found.s]]
             ELSE found

xfm_view(vd, view, out) ==
    LET good_view == {k \in DOMAIN vd : view = Slice(k, Len(view))}
        found == [raised |-> "none",
                  s |-> IF view \in DOMAIN vd THEN view
                        ELSE CHOOSE k \in good_view : TRUE,
                  t |-> <<0, 0>>]
    IN  IF view \notin DOMAIN vd /\ Cardinality(good_view) # 1
        THEN xfm_view_bad
        ELSE IF out = "t"
             THEN [found EXCEPT !.s = <<>>, !.t = vd[found.s]]
             ELSE found

-----------------------------------------------------------------------------
(* __min_diff *)

min_diff_1(x) ==
    IF x > 180 THEN x - 360
    ELSE IF x < -180 THEN x + 360
    ELSE x

min_diff(beg, end) ==
    <<min_diff_1(end[1] - beg[1]), min_diff_1(end[2] - beg[2])>>

-----------------------------------------------------------------------------
(* show_view *)

\* the camera after show_view(view), and what it raises
show_view(vd, cam, view) ==
    IF view.kind = "str"
    THEN IF view.s \notin DOMAIN vd
         THEN LET r == xfm_view(vd, view.s, "s")
              IN  IF r.raised = "none"
                  THEN [cam |-> Cam(vd[r.s]), raised |-> "none"]
                  ELSE [cam |-> cam, raised |-> "none"]    \* except ValueError: print
         ELSE [cam |-> cam, raised |-> "none"]
    ELSE IF view.kind = "tuple"
    THEN [cam |-> Cam(view.t), raised |-> "none"]
    ELSE [cam |-> cam, raised |-> "ValueError"]

-----------------------------------------------------------------------------
(* save_image *)

good_ftypes ==
    {"png", "jpg", "bmp", "tiff", "ps", "eps", "pdf", "rib", "oogl", "iv",
     "vrml", "obj"}

\* fname[fname.rfind('.') + 1:]
Ftype(fname) == IF fname.ext = <<>> THEN "" ELSE fname.ext[Len(fname.ext)]

\* what mlab.savefig writes: an image of the window's size (which camera took
\* it is logged by the caller, see save_imageset_step)
Frame(size) == [kind |-> "frame", size |-> size]

\* dsk with file f (over)written
WriteFile(dsk, f, content) ==
    [x \in DOMAIN dsk \cup {f} |-> IF x = f THEN content ELSE dsk[x]]

\* dsk without file f
RemoveFile(dsk, f) == [x \in DOMAIN dsk \ {f} |-> dsk[x]]

save_image(dsk, size, fname) ==
    IF Ftype(fname) \notin good_ftypes
    THEN [disk |-> dsk, raised |-> "ValueError"]
    ELSE [disk |-> WriteFile(dsk, fname, Frame(size)), raised |-> "none"]

-----------------------------------------------------------------------------
(* save_imageset *)

\* the loop's state: camera, disk, images_written, and a log of the views
\* whose iteration began and of the frames mlab.savefig wrote
ImagesetStart(cam, dsk) ==
    [cam |-> cam, disk |-> dsk, images_written |-> <<>>, attempted |-> <<>>,
     captured |-> <<>>, raised |-> "none"]

\* save_imageset_step without the outer `except ValueError`
save_imageset_step_uncaught(st, vd, size, prefix, view, filetype) ==
    LET fname == Fname(prefix, view, filetype)
        st1 == [st EXCEPT !.images_written = Append(@, fname),
                          !.attempted = Append(@, view)]
        sv == show_view(vd, st.cam, view)
        si == save_image(st.disk, size, fname)
    IN  IF sv.raised = "ValueError"
        THEN [st1 EXCEPT !.raised = "ValueError"]
        ELSE IF si.raised = "ValueError"
        THEN [st1 EXCEPT !.cam = sv.cam]
        ELSE [st1 EXCEPT !.cam = sv.cam, !.disk = si.disk,
                         !.captured = Append(@, [fname |-> fname, view |-> view,
                                                 cam |-> sv.cam])]

\* one iteration of `for view in views`
save_imageset_step(st, vd, size, prefix, view, filetype) ==
    LET fname == Fname(prefix, view, filetype)
        st1 == [st EXCEPT !.images_written = Append(@, fname),
                          !.attempted = Append(@, view)]
        sv == show_view(vd, st.cam, view)
        si == save_image(st.disk, size, fname)
    IN  IF sv.raised = "ValueError"
        THEN st1                                  \* except ValueError: "Skipping"
        ELSE IF si.raised = "ValueError"
        THEN [st1 EXCEPT !.cam = sv.cam]          \* except ValueError: "Bad image type"
        ELSE [st1 EXCEPT !.cam = sv.cam, !.disk = si.disk,
                         !.captured = Append(@, [fname |-> fname, view |-> view,
                                                 cam |-> sv.cam])]

RECURSIVE save_imageset_loop(_, _, _, _, _, _)
save_imageset_loop(st, vd, size, prefix, views, filetype) ==
    IF views = <<>> \/ st.raised # "none"
    THEN st
    ELSE save_imageset_loop(
             save_imageset_step(st, vd, size, prefix, Head(views), filetype),
             vd, size, prefix, Tail(views), filetype)

\* views: [isstring, seq]; a bare string is refused before the loop
save_imageset(vd, cam, dsk, size, prefix, views, filetype) ==
    IF views.isstring
    THEN [ImagesetStart(cam, dsk) EXCEPT !.raised = "ValueError"]
    ELSE save_imageset_loop(ImagesetStart(cam, dsk), vd, size, prefix,
                            views.seq, filetype)

-----------------------------------------------------------------------------
(* save_montage *)

RECURSIVE SumOf(_)
SumOf(xs) == IF xs = <<>> THEN 0 ELSE Head(xs) + SumOf(Tail(xs))

\* max() of a non-empty sequence
MaxOf(xs) == CHOOSE m \in {xs[i] : i \in DOMAIN xs} : \A i \in DOMAIN xs : xs[i] <= m

\* the canvas <<w, h>> of Image.new
montage_canvas(sizes, shape) ==
    LET widths == [i \in DOMAIN sizes |-> sizes[i][1]]
        heights == [i \in DOMAIN sizes |-> sizes[i][2]]
    IN  IF shape = "h"
        THEN <<SumOf(widths), MaxOf(heights)>>
        ELSE <<MaxOf(widths), SumOf(heights)>>

\* montage_paste_step advancing the offset by the cross-axis extent
montage_paste_step_cross(ps, size, shape) ==
    IF shape = "h"
    THEN [x |-> ps.x + size[2], pos |-> Append(ps.pos, <<ps.x, 0>>)]
    ELSE [x |-> ps.x + size[1], pos |-> Append(ps.pos, <<0, ps.x>>)]

\* one iteration of the paste loop: ps = [x, pos]
montage_paste_step(ps, size, shape) ==
    IF shape = "h"
    THEN [x |-> ps.x + size[1], pos |-> Append(ps.pos, <<ps.x, 0>>)]
    ELSE [x |-> ps.x + size[2], pos |-> Append(ps.pos, <<0, ps.x>>)]

RECURSIVE montage_paste(_, _, _)
montage_paste(ps, sizes, shape) ==
    IF sizes = <<>> THEN ps
    ELSE montage_paste(montage_paste_step(ps, Head(sizes), shape), Tail(sizes), shape)

\* `for f in fnames: os.remove(f)`: rs = [disk, raised]
RECURSIVE montage_cleanup(_, _)
montage_cleanup(rs, fnames) ==
    IF fnames = <<>> \/ rs.raised # "none" THEN rs
    ELSE IF Head(fnames) \notin DOMAIN rs.disk
    THEN [rs EXCEPT !.raised = "OSError"]
    ELSE montage_cleanup([rs EXCEPT !.disk = RemoveFile(@, Head(fnames))], Tail(fnames))

\* the prefix of save_montage's internal save_imageset call
TmpPrefix == "tmp"

\* the composite image written by new.save
Composite(canvas) == [kind |-> "montage", size |-> canvas]

MontageStart(r) ==
    [cam |-> r.cam, disk |-> r.disk, raised |-> r.raised, fnames |-> r.images_written,
     attempted |-> r.attempted, captured |-> r.captured, sizes |-> <<>>,
     canvas |-> <<0, 0>>, positions |-> <<>>, composed |-> FALSE]

\* saveOk: whether new.save(filename) succeeds
save_montage(vd, cam, dsk, size, filename, order, shape, saveOk) ==
    LET r == save_imageset(vd, cam, dsk, size, TmpPrefix, order, <<"png">>)
        m0 == MontageStart(r)
        fnames == r.images_written
        sizes == [i \in DOMAIN fnames |-> r.disk[fnames[i]].size]
        canvas == montage_canvas(sizes, shape)
        pasted == montage_paste([x |-> 0, pos |-> <<>>], sizes, shape)
        saved == IF saveOk THEN WriteFile(r.disk, filename, Composite(canvas))
                 ELSE r.disk
        cleaned == montage_cleanup([disk |-> saved, raised |-> "none"], fnames)
    IN  IF r.raised # "none" THEN m0
        ELSE IF \E i \in DOMAIN fnames : fnames[i] \notin DOMAIN r.disk
        THEN [m0 EXCEPT !.raised = "IOError"]              \* Image.open
        ELSE IF fnames = <<>>
        THEN [m0 EXCEPT !.raised = "ValueError"]           \* max() of nothing
        ELSE [m0 EXCEPT !.sizes = sizes, !.canvas = canvas,
                        !.positions = pasted.pos, !.composed = TRUE,
                        !.disk = cleaned.disk, !.raised = cleaned.raised]

-----------------------------------------------------------------------------
(* animate *)

\* the camera at ov + i * d / n
Interp(ov, d, i, n) == <<n * ov[1] + i * d[1], n * ov[2] + i * d[2], n>>

\* the loop's state: the locals b and e (<<>>: unbound), the camera, and a log
\* of the orientations handed to mlab.view inside `for i in range(n)`
AnimateStart(cam) ==
    [b |-> <<>>, e |-> <<>>, cam |-> cam, emitted |-> <<>>, raised |-> "none"]

\* animate_step with `range(1, n + 1)` for `range(n)`
animate_step_from_one(st, vd, views, i, n) ==
    LET v == views[i]
        rb == xfm_view(vd, v.s, "t")
        st1 == IF v.kind = "str" THEN [st EXCEPT !.b = <<rb.t>>] ELSE st
        end == views[i + 1]
        re == xfm_view(vd, end.s, "t")
        st2 == IF end.kind = "str" THEN [st1 EXCEPT !.e = <<re.t>>] ELSE st1
        d == min_diff(st2.b[1], st2.e[1])
        ov == st2.b[1]
    IN  IF v.kind = "str" /\ rb.raised # "none"
        THEN [st EXCEPT !.raised = "ValueError"]
        ELSE IF i + 1 > Len(views)
        THEN st1
        ELSE IF end.kind = "str" /\ re.raised # "none"
        THEN [st1 EXCEPT !.raised = "ValueError"]
        ELSE IF st2.b = <<>> \/ st2.e = <<>>
        THEN [st2 EXCEPT !.raised = "NameError"]
        ELSE [st2 EXCEPT !.cam = Interp(ov, d, n, n),
                         !.emitted = @ \o [k \in 1..n |-> Interp(ov, d, k, n)]]

\* one iteration of `for i, v in enumerate(views)`, i counted from 1
animate_step(st, vd, views, i, n) ==
    LET v == views[i]
        rb == xfm_view(vd, v.s, "t")
        st1 == IF v.kind = "str" THEN [st EXCEPT !.b = <<rb.t>>] ELSE st
        end == views[i + 1]
        re == xfm_view(vd, end.s, "t")
        st2 == IF end.kind = "str" THEN [st1 EXCEPT !.e = <<re.t>>] ELSE st1
        d == min_diff(st2.b[1], st2.e[1])
        ov == st2.b[1]
    IN  IF v.kind = "str" /\ rb.raised # "none"
        THEN [st EXCEPT !.raised = "ValueError"]
        ELSE IF i + 1 > Len(views)
        THEN st1                                           \* except IndexError: pass
        ELSE IF end.kind = "str" /\ re.raised # "none"
        THEN [st1 EXCEPT !.raised = "ValueError"]
        ELSE IF st2.b = <<>> \/ st2.e = <<>>
        THEN [st2 EXCEPT !.raised = "NameError"]
        ELSE [st2 EXCEPT !.cam = IF n = 0 THEN Cam(ov) ELSE Interp(ov, d, n - 1, n),
                         !.emitted = @ \o [k \in 1..n |-> Interp(ov, d, k - 1, n)]]

RECURSIVE animate_loop(_, _, _, _, _)
animate_loop(st, vd, views, i, n) ==
    IF i > Len(views) \/ st.raised # "none" THEN st
    ELSE animate_loop(animate_step(st, vd, views, i, n), vd, views, i + 1, n)

animate(vd, cam, views, n) == animate_loop(AnimateStart(cam), vd, views, 1, n)

-----------------------------------------------------------------------------
(* Inputs *)

\* view specs: an exact name, an abbreviation, a name no key starts with,
\* a literal tuple, a number
Views ==
    {StrView(lateral), StrView(<<"m", "e", "d">>), StrView(<<"x">>),
     TupleView(<<10, 20>>), OtherView(<<"5">>)}

ViewSeqs == UNION {[1..k -> Views] : k \in 0..MaxViews}

\* the `views` argument: a sequence of view specs, or a bare string
ViewArgs ==
    {[isstring |-> FALSE, seq |-> vs] : vs \in ViewSeqs}
        \cup {[isstring |-> TRUE, seq |-> <<>>]}

FileTypes == {<<"png">>, <<"gif">>}

ImagesetPrefix == "p"

\* file names handed to save_image directly
ImageNames == {Fname(TmpPrefix, OtherView(<<"5">>), ft) : ft \in FileTypes}

\* save_montage's filename
MontageName == [prefix |-> "montage", label |-> Label(StrView(<<>>)), ext |-> <<"png">>]

\* window sizes: the one __init__ asks for and one after a resize
InitSize == <<800, 800>>
FigSizes == {InitSize, <<400, 600>>}

Keys == DOMAIN lh_viewdict

\* strings handed to __xfm_view: every leading substring of every key (the
\* empty string and the key included), keys with a letter too many, others
NameStrings ==
    UNION {{SubSeq(k, 1, i) : i \in 0..Len(k)} : k \in Keys}
        \cup {k \o <<"s">> : k \in Keys}
        \cup {<<"x">>, <<"l", "e">>, <<"a", "t">>, <<"m", "e", "d", "a">>}

\* orientations handed to __min_diff: the tables' and literal tuples
Orients ==
    {lh_viewdict[k] : k \in Keys} \cup {rh_viewdict[k] : k \in Keys}
        \cup {<<10, 20>>, <<-300, 0>>, <<300, 45>>}

-----------------------------------------------------------------------------
(* State *)

NoArg == [isstring |-> FALSE, seq |-> <<>>]

\* `last` before any recorded call
NoCall ==
    [op |-> "none", views |-> NoArg, filetype |-> <<>>, shape |-> "", n |-> 0,
     saveOk |-> FALSE, s |-> <<>>, out |-> "", beg |-> <<0, 0>>, end |-> <<0, 0>>,
     raised |-> "none", returned |-> <<>>, attempted |-> <<>>, captured |-> <<>>,
     emitted |-> <<>>, sizes |-> <<>>, canvas |-> <<0, 0>>, positions |-> <<>>,
     composed |-> FALSE, xs |-> <<>>, xt |-> <<0, 0>>, delta |-> <<0, 0>>]

\* Brain.__init__: the view table by hemisphere, then show_view("lat")
Init ==
    /\ hemi \in {"lh", "rh"}
    /\ camera = show_view(viewdict(hemi), <<0, 0, 1>>, StrView(<<"l", "a", "t">>)).cam
    /\ figsize = InitSize
    /\ disk = <<>>
    /\ pc = "idle"
    /\ last = NoCall

-----------------------------------------------------------------------------
(* Single-view calls and the window *)

ShowView ==
    /\ pc = "idle"
    /\ \E view \in Views :
          camera' = show_view(viewdict(hemi), camera, view).cam
    /\ UNCHANGED <<hemi, figsize, disk, pc, last>>

SaveImage ==
    /\ pc = "idle"
    /\ \E fname \in ImageNames :
          disk' = save_image(disk, figsize, fname).disk
    /\ UNCHANGED <<hemi, camera, figsize, pc, last>>

\* the user resizes the figure window
Resize ==
    /\ pc = "idle"
    /\ \E size \in FigSizes : figsize' = size
    /\ UNCHANGED <<hemi, camera, disk, pc, last>>

-----------------------------------------------------------------------------
(* The helpers, called on their own *)

XfmView ==
    /\ pc = "idle"
    /\ \E s \in NameStrings, out \in {"s", "t"} :
          LET r == xfm_view(viewdict(hemi), s, out)
          IN  last' = [NoCall EXCEPT !.op = "xfm_view", !.s = s, !.out = out,
                                     !.raised = r.raised, !.xs = r.s, !.xt = r.t]
    /\ pc' = "done"
    /\ UNCHANGED <<hemi, camera, figsize, disk>>

MinDiff ==
    /\ pc = "idle"
    /\ \E beg \in Orients, end \in Orients :
          last' = [NoCall EXCEPT !.op = "min_diff", !.beg = beg, !.end = end,
                                 !.delta = min_diff(beg, end)]
    /\ pc' = "done"
    /\ UNCHANGED <<hemi, camera, figsize, disk>>

-----------------------------------------------------------------------------
(* Batch calls *)

SaveImageset ==
    /\ pc = "idle"
    /\ \E views \in ViewArgs, filetype \in FileTypes :
          LET r == save_imageset(viewdict(hemi), camera, disk, figsize,
                                 ImagesetPrefix, views, filetype)
          IN  /\ camera' = r.cam
              /\ disk' = r.disk
              /\ last' = [NoCall EXCEPT !.op = "save_imageset", !.views = views,
                                        !.filetype = filetype, !.raised = r.raised,
                                        !.returned = r.images_written,
                                        !.attempted = r.attempted,
                                        !.captured = r.captured]
    /\ pc' = "done"
    /\ UNCHANGED <<hemi, figsize>>

SaveMontage ==
    /\ pc = "idle"
    /\ \E order \in ViewArgs, shape \in {"h", "v"}, saveOk \in BOOLEAN :
          LET m == save_montage(viewdict(hemi), camera, disk, figsize,
                                MontageName, order, shape, saveOk)
          IN  /\ camera' = m.cam
              /\ disk' = m.disk
              /\ last' = [NoCall EXCEPT !.op = "save_montage", !.views = order,
                                        !.shape = shape, !.saveOk = saveOk,
                                        !.raised = m.raised, !.returned = m.fnames,
                                        !.attempted = m.attempted,
                                        !.captured = m.captured, !.sizes = m.sizes,
                                        !.canvas = m.canvas,
                                        !.positions = m.positions,
                                        !.composed = m.composed]
    /\ pc' = "done"
    /\ UNCHANGED <<hemi, figsize>>

Animate ==
    /\ pc = "idle"
    /\ \E views \in ViewSeqs, n \in 1..MaxSteps :
          LET a == animate(viewdict(hemi), camera, views, n)
          IN  /\ camera' = a.cam
              /\ last' = [NoCall EXCEPT !.op = "animate",
                                        !.views = [isstring |-> FALSE, seq |-> views],
                                        !.n = n, !.raised = a.raised,
                                        !.emitted = a.emitted]
    /\ pc' = "done"
    /\ UNCHANGED <<hemi, figsize, disk>>

Next ==
    \/ ShowView
    \/ SaveImage
    \/ Resize
    \/ XfmView
    \/ MinDiff
    \/ SaveImageset
    \/ SaveMontage
    \/ Animate

Spec == Init /\ [][Next]_vars

-----------------------------------------------------------------------------
(* Vocabulary of the properties *)

\* the recorded call is a call of op
Called(op) == pc = "done" /\ last.op = op

\* s is a leading substring of key k
LeadingOf(s, k) == \E i \in 0..Len(k) : SubSeq(k, 1, i) = s

Matching(s) == {k \in Keys : LeadingOf(s, k)}

\* s names a view: it is a key, or a leading substring of exactly one key
Resolves(s) == s \in Keys \/ Cardinality(Matching(s)) = 1

KeyOf(s) == IF s \in Keys THEN s ELSE CHOOSE k \in Matching(s) : TRUE

\* the orientation a resolvable view spec stands for
Resolved(h, view) ==
    IF view.kind = "tuple" THEN view.t ELSE viewdict(h)[KeyOf(view.s)]

Resolvable(view) ==
    view.kind = "tuple" \/ (view.kind = "str" /\ Resolves(view.s))

IsName(view) == view.kind = "str" /\ Resolves(view.s)

\* the orientations animate is to emit for views and step count n: for the
\* j-th consecutive pair, start + i * delta / n for i = 0..n-1
Path(h, views, n) ==
    [x \in 1..((Len(views) - 1) * n) |->
        LET j == ((x - 1) \div n) + 1
            i == (x - 1) % n
            beg == Resolved(h, views[j])
            d == min_diff(beg, Resolved(h, views[j + 1]))
        IN  <<n * beg[1] + i * d[1], n * beg[2] + i * d[2], n>>]

-----------------------------------------------------------------------------
(* Properties *)

\* C1: after a save_montage call, however it ends, none of the temporary
\* files its save_imageset("tmp", order) call wrote is left on disk.
C1_NoTempFileSurvives ==
    Called("save_montage") =>
        \A i \in DOMAIN last.captured : last.captured[i].fname \notin DOMAIN disk

\* C2: save_imageset returns exactly the names of the files it wrote, in
\* input order; a view whose capture did not happen adds no name.
C2_ReturnsWhatWasWritten ==
    (Called("save_imageset") /\ ~last.views.isstring) =>
        last.returned = [i \in DOMAIN last.captured |-> last.captured[i].fname]

\* C3: each component of the delta __min_diff returns is greater than -180
\* and at most 180.
C3_DeltaHalfOpen ==
    Called("min_diff") =>
        \A c \in 1..2 : last.delta[c] > -180 /\ last.delta[c] <= 180

\* C4: __xfm_view succeeds exactly when the string is a key or a leading
\* substring of exactly one key, and then gives that key (out 's') or its
\* orientation (out 't'); otherwise it raises the bad-view ValueError.
C4_ResolveExactlyUnique ==
    Called("xfm_view") =>
        IF Resolves(last.s)
        THEN /\ last.raised = "none"
             /\ last.out = "s" => last.xs = KeyOf(last.s)
             /\ last.out = "t" => last.xt = viewdict(hemi)[KeyOf(last.s)]
        ELSE last.raised = "ValueError"

\* C4 witness: an abbreviation that is no key resolved to its key's orientation
C4_Witness ==
    /\ Called("xfm_view")
    /\ last.s = <<"v", "e", "n">>
    /\ last.out = "t"
    /\ last.raised = "none"
    /\ last.xt = viewdict(hemi)[ventral]

\* C5: in save_imageset every file of a resolvable view is captured with the
\* camera at that view's orientation.
C5_CapturedAtResolvedView ==
    Called("save_imageset") =>
        \A i \in DOMAIN last.captured :
            Resolvable(last.captured[i].view) =>
                last.captured[i].cam = Cam(Resolved(hemi, last.captured[i].view))

\* C6: animate over view names of which one matches no key (or several)
\* lets no error reach the caller.
C6_BadNameSwallowed ==
    (/\ Called("animate")
     /\ \A i \in DOMAIN last.views.seq : last.views.seq[i].kind = "str"
     /\ \E i \in DOMAIN last.views.seq : ~Resolves(last.views.seq[i].s))
        => last.raised = "none"

\* C7: in save_imageset no per-view failure (unresolvable name, a view that is
\* neither string nor tuple, a refused file type) reaches the caller, and
\* every view of the sequence is attempted, in input order; with a supported
\* file type every string or tuple view is captured.
C7_FailuresDoNotAbort ==
    (Called("save_imageset") /\ ~last.views.isstring) =>
        /\ last.raised = "none"
        /\ last.attempted = last.views.seq
        /\ LET IsShown(v) == v.kind # "other"
           IN  [i \in DOMAIN last.captured |-> last.captured[i].view] =
                   IF last.filetype = <<"png">>
                   THEN SelectSeq(last.views.seq, IsShown)
                   ELSE <<>>

\* C7 witness: a batch whose first view is a number, whose second matches no
\* key, and whose third is captured
C7_Witness ==
    /\ Called("save_imageset")
    /\ Len(last.views.seq) = 3
    /\ last.views.seq[1].kind = "other"
    /\ last.views.seq[2] = StrView(<<"x">>)
    /\ last.views.seq[3] = TupleView(<<10, 20>>)
    /\ last.raised = "none"
    /\ \E i \in DOMAIN last.captured :
          /\ last.captured[i].view = last.views.seq[3]
          /\ last.captured[i].cam = Cam(<<10, 20>>)

\* C8: the montage canvas is as long as the components' extents summed along
\* the layout axis and as wide as the largest across it; component k is
\* pasted at the summed extents of the components before it, at cross offset
\* 0; so every component lies inside the canvas and no two overlap.
C8_MontageLayout ==
    (Called("save_montage") /\ last.composed) =>
        LET sz == last.sizes
            ps == last.positions
            a == IF last.shape = "h" THEN 1 ELSE 2       \* layout axis
            c == IF last.shape = "h" THEN 2 ELSE 1       \* cross axis
        IN  /\ Len(sz) >= 1
            /\ Len(ps) = Len(sz)
            /\ last.canvas[a] = SumOf([k \in DOMAIN sz |-> sz[k][a]])
            /\ \A k \in DOMAIN sz : sz[k][c] <= last.canvas[c]
            /\ \E k \in DOMAIN sz : sz[k][c] = last.canvas[c]
            /\ \A k \in DOMAIN sz :
                  /\ ps[k][a] = SumOf([m \in 1..(k - 1) |-> sz[m][a]])
                  /\ ps[k][c] = 0
                  /\ ps[k][1] + sz[k][1] <= last.canvas[1]
                  /\ ps[k][2] + sz[k][2] <= last.canvas[2]
            /\ \A k, m \in DOMAIN sz :
                  k < m => ps[k][a] + sz[k][a] <= ps[m][a]

\* C8 witness: a montage of components of different sizes
C8_Witness ==
    /\ Called("save_montage")
    /\ last.composed
    /\ Len(last.sizes) = 3
    /\ last.sizes[1] # last.sizes[2]
    /\ last.shape = "h"
    /\ last.canvas = <<2000, 800>>

C10_TuplesPassThrough ==
    (/\ Called("animate")
     /\ \A i \in DOMAIN last.views.seq : Resolvable(last.views.seq[i])
     /\ \E i \in DOMAIN last.views.seq : last.views.seq[i].kind = "tuple")
        => /\ last.raised = "none"
           /\ last.emitted = Path(hemi, last.views.seq, last.n)

=============================================================================
